---- MODULE Spec2Model ----
(***************************************************************************)
(* A model of src/video_downloader.py: the VideoDownloader batch job.      *)
(* One process run reads the CSV work list, loads progress_log.txt,        *)
(* acquires a proxy, then walks the remaining avids one by one: validity   *)
(* check of the proxy, directories, the yutto download, the ffmpeg cover   *)
(* extraction of every .mp4 found, the progress record.  The two ledger    *)
(* files survive the process; everything else is rebuilt by the next run.  *)
(***************************************************************************)
EXTENDS Integers, Sequences, FiniteSets, TLC

(* ------------------------------ bounds --------------------------------- *)
\* how many .mp4 files os.walk finds in one item's merge directory
MaxFiles == 1

(* ------------------------- program constants --------------------------- *)
\* a retry loop that runs one pass too many
max_retries_one_more == 5 + 1

max_retries == 5
RETRY_DELAY == 5
LEASE_TTL == 300
DOWNLOAD_TIMEOUT == 180
COVER_TIMEOUT == 60
CHECKPOINT_EVERY == 1000

(* ------------------------------ inputs --------------------------------- *)
\* the avids that occur in the CSV files of the model
IDs == {101, 102, 103}

\* the 'avid' column of a CSV file one item longer than a checkpoint
\* interval: the avids 1, 2, ... 1001
CheckpointCsv == [i \in 1..(CHECKPOINT_EVERY + 1) |-> i]

\* f"{avid}\n": the text of an avid as a ledger line (newline left out)
IdText == [a \in IDs \cup {CheckpointCsv[i] : i \in DOMAIN CheckpointCsv}
             |-> ToString(a)]

\* a progress_log.txt line that int() rejects
CorruptLine == "av101"

\* the 'avid' column of the CSV files the batch is run on: short ones for
\* the batch launched again and again, a longer one for a single launch
CsvFiles == { <<101, 102>>, <<102, 101, 102>> }
LongCsvFiles == { <<102, 101, 102, 101, 103>> }

\* the proxy URL built from the service's answer
Endpoint == "http://ip:port"

\* what one call of the proxy service can do
IpOutcomes == {"ok", "transport_error", "json_error", "bad_status"}

\* how the yutto command can end, and the seconds it then took
DownloadOutcomes == {"ok", "nonzero", "timeout", "error"}
DownloadFailures == {"nonzero", "timeout", "error"}
DownloadTime(outcome) ==
    CASE outcome = "ok"      -> 120
      [] outcome = "nonzero" -> 119
      [] outcome = "timeout" -> DOWNLOAD_TIMEOUT
      [] outcome = "error"   -> 0

\* how the ffmpeg command can end, and the seconds it then took
CoverOutcomes == {"ok", "nonzero", "timeout"}
CoverTime(outcome) == IF outcome = "timeout" THEN COVER_TIMEOUT ELSE 1

(* ------------------------------- state --------------------------------- *)
VARIABLES
    csv_exists,        \* the CSV file is there
    csv,               \* its 'avid' column
    progress_log,      \* progress_log.txt, a sequence of lines
    error_log,         \* error_log.txt: which lines it holds.  log_error
                       \* only appends and nothing reads the file back,
                       \* so the count and order of the lines are dropped
    pc,                \* where the process is
    exit_code,         \* the process's exit code, -1 while it runs
    avid_list,         \* run(): the deduplicated work list
    completed_avids,   \* run(): the set load_progress returned
    remaining_avids,   \* run(): the work list minus the completed avids
    index,             \* run(): enumerate(remaining_avids, start=1)
    proxy,             \* self.proxy, "None" before the first acquisition
    proxy_fetch_time,  \* self.proxy_fetch_time
    attempt,           \* get_ip(): the for loop's counter
    caller,            \* who called get_ip: "run" or "check_ip_validity"
    files,             \* number of .mp4 files os.walk yields for the item
    file_idx,          \* the next of them to extract a cover from
    now,               \* time.time(), seconds since the process started
    calls,             \* history: requests.get calls of the acquisition
    started,           \* history: avids whose loop body was entered
    invoked,           \* history: avids the download command was run for
    covered,           \* history: <<avid, k>> ffmpeg was run for
    dl,                \* history: outcome of each avid's download
    cause              \* history: why the process exited

disk == <<csv_exists, csv, progress_log, error_log>>
memory == <<avid_list, completed_avids, remaining_avids, index, proxy,
            proxy_fetch_time, attempt, caller, files, file_idx>>
history == <<calls, started, invoked, covered, dl, cause>>
vars == <<disk, memory, history, pc, exit_code, now>>

(* ------------------------------ helpers -------------------------------- *)
Range(s) == {s[i] : i \in 1..Len(s)}

\* the column taken as it is, duplicates kept
KeepDuplicates(s) == s

\* the values in order of last appearance
RECURSIVE UniqueKeepLast(_)
UniqueKeepLast(s) ==
    IF s = <<>> THEN <<>>
    ELSE LET rest == UniqueKeepLast(Tail(s))
         IN  IF Head(s) \in Range(rest) THEN rest ELSE <<Head(s)>> \o rest

\* pandas' Series.unique(): the values in order of first appearance.  The
\* column is split in halves so that a long column is unfolded to a depth
\* of log2(Len(s)) and not of Len(s): the unique values of the first half,
\* then those of the second half that the first half does not hold
RECURSIVE Unique(_)
Unique(s) ==
    IF Len(s) <= 1 THEN s
    ELSE LET half == Len(s) \div 2
             head == Unique(SubSeq(s, 1, half))
             tail == Unique(SubSeq(s, half + 1, Len(s)))
             seen == Range(head)
         IN  head \o SelectSeq(tail, LAMBDA a : a \notin seen)

\* int(line.strip()) succeeds
IsIntText(line) == \E a \in DOMAIN IdText : IdText[a] = line

\* int(line.strip())
ParseInt(line) == CHOOSE a \in DOMAIN IdText : IdText[a] = line

\* the lines load_progress converts: "if line.strip()"
NonBlank(log) == SelectSeq(log, LAMBDA line : line # "")

\* load_progress raises ValueError
LoadRaises(log) == \E line \in Range(NonBlank(log)) : ~IsIntText(line)

\* a load_progress that reads nothing
load_progress_nothing(log) == {}

\* load_progress's return value
load_progress(log) == {ParseInt(line) : line \in Range(NonBlank(log))}

\* the work list taken whole, the completed avids not filtered out
RemainingUnfiltered(list, completed) == list

\* [avid for avid in avid_list if avid not in completed_avids]
Remaining(list, completed) == SelectSeq(list, LAMBDA a : a \notin completed)

\* the lines log_error writes: an avid, or a video file's basename
AvidLine(a) == [kind |-> "avid", avid |-> a, file |-> 0]
FileLine(a, k) == [kind |-> "file", avid |-> a, file |-> k]

\* the loop variable of run()
avid == remaining_avids[index]

\* the comparison written >= instead of >
ExpiredAtTtl == proxy = "None" \/ (now - proxy_fetch_time) >= LEASE_TTL

\* check_ip_validity's condition
Expired == proxy = "None" \/ (now - proxy_fetch_time) > LEASE_TTL

\* sys.exit(code)
Exit(code, why) ==
    /\ pc' = "exited"
    /\ exit_code' = code
    /\ cause' = why

\* no per-item handler: the exception reaches run()'s outer handler
ItemExceptionFatal ==
    /\ Exit(1, "unexpected")
    /\ UNCHANGED <<error_log, index>>

\* a per-item handler that goes on without log_error
ItemExceptionUnrecorded ==
    /\ index' = index + 1
    /\ pc' = "loop"
    /\ UNCHANGED <<error_log, exit_code, cause>>

\* run()'s per-item handler: except Exception -> log_error(avid), next item
ItemException ==
    /\ error_log' = error_log \cup {AvidLine(avid)}
    /\ index' = index + 1
    /\ pc' = "loop"
    /\ UNCHANGED <<exit_code, cause>>

(* ------------------------------- Init ---------------------------------- *)
NoDownloads == [a \in IDs |-> "none"]

\* the state after __init__, on an output directory holding progress_log;
\* downloads is the empty history of the avids that can be met
FreshWith(exists, column, ledger, downloads) ==
    /\ csv_exists = exists
    /\ csv = column
    /\ progress_log = ledger
    /\ error_log = {}
    /\ pc = "read_csv"
    /\ exit_code = -1
    /\ avid_list = <<>>
    /\ completed_avids = {}
    /\ remaining_avids = <<>>
    /\ index = 1
    /\ proxy = "None"
    /\ proxy_fetch_time = 0
    /\ attempt = 0
    /\ caller = "none"
    /\ files = 0
    /\ file_idx = 1
    /\ now = 0
    /\ calls = 0
    /\ started = {}
    /\ invoked = <<>>
    /\ covered = {}
    /\ dl = downloads
    /\ cause = "none"

Fresh(exists, column, ledger) ==
    FreshWith(exists, column, ledger, NoDownloads)

Init ==
    \E exists \in BOOLEAN, ledger \in {<<>>, <<CorruptLine>>} :
       \E column \in IF exists THEN CsvFiles ELSE {<<>>} :
          Fresh(exists, column, ledger)

InitLong == \E column \in LongCsvFiles : Fresh(TRUE, column, <<>>)

\* a first launch on the 1001-item work list
InitCheckpoint ==
    FreshWith(TRUE, CheckpointCsv, <<>>,
              [a \in Range(CheckpointCsv) |-> "none"])

\* that launch at the head of the loop for item 1000, in the state that
\* FirstItemsSpec reaches: items 1 to 999 were each downloaded in 120 s
\* with no .mp4 to extract a cover from, and the proxy was stamped anew
\* every 360 s, the last time before item 997
AtCheckpointItem ==
    LET done == CHECKPOINT_EVERY - 1
    IN  /\ csv_exists = TRUE
        /\ csv = CheckpointCsv
        /\ progress_log = [i \in 1..done |-> IdText[CheckpointCsv[i]]]
        /\ error_log = {}
        /\ pc = "loop"
        /\ exit_code = -1
        /\ avid_list = CheckpointCsv
        /\ completed_avids = {}
        /\ remaining_avids = CheckpointCsv
        /\ index = CHECKPOINT_EVERY
        /\ proxy = Endpoint
        /\ proxy_fetch_time = (done - 3) * DownloadTime("ok")
        /\ attempt = 0
        /\ caller = "none"
        /\ files = 0
        /\ file_idx = 1
        /\ now = done * DownloadTime("ok")
        /\ calls = 1
        /\ started = {CheckpointCsv[i] : i \in 1..done}
        /\ invoked = [i \in 1..done |-> CheckpointCsv[i]]
        /\ covered = {}
        /\ dl = [a \in Range(CheckpointCsv) |->
                   IF a \in {CheckpointCsv[i] : i \in 1..done}
                     THEN "ok" ELSE "none"]
        /\ cause = "none"

(* ------------------------------ actions -------------------------------- *)
\* a run() that takes a missing CSV file for an empty work list
ReadCsvIgnoresMissing ==
    /\ pc = "read_csv"
    /\ avid_list' = IF csv_exists THEN Unique(csv) ELSE <<>>
    /\ pc' = "load_progress"
    /\ UNCHANGED <<disk, completed_avids, remaining_avids, index, proxy,
                   proxy_fetch_time, attempt, caller, files, file_idx, now,
                   history, exit_code>>

\* run(): pd.read_csv and unique(); FileNotFoundError -> sys.exit(1)
ReadCsv ==
    /\ pc = "read_csv"
    /\ IF csv_exists
         THEN /\ avid_list' = Unique(csv)
              /\ pc' = "load_progress"
              /\ UNCHANGED <<exit_code, cause>>
         ELSE /\ Exit(1, "csv_not_found")
              /\ UNCHANGED avid_list
    /\ UNCHANGED <<disk, completed_avids, remaining_avids, index, proxy,
                   proxy_fetch_time, attempt, caller, files, file_idx, now,
                   calls, started, invoked, covered, dl>>

\* run(): load_progress, the remaining list, then the first get_ip;
\* a ValueError of int() reaches "except Exception" -> sys.exit(1)
LoadProgress ==
    /\ pc = "load_progress"
    /\ IF LoadRaises(progress_log)
         THEN /\ Exit(1, "corrupt_ledger")
              /\ UNCHANGED <<completed_avids, remaining_avids, caller>>
         ELSE /\ completed_avids' = load_progress(progress_log)
              /\ remaining_avids' = Remaining(avid_list, completed_avids')
              /\ caller' = "run"
              /\ pc' = "get_ip"
              /\ UNCHANGED <<exit_code, cause>>
    /\ UNCHANGED <<disk, avid_list, index, proxy, proxy_fetch_time, attempt,
                   files, file_idx, now, calls, started, invoked,
                   covered, dl>>

\* get_ip(): one pass of the for loop
GetIpAttempt(outcome) ==
    /\ pc = "get_ip"
    /\ attempt < max_retries
    /\ calls' = calls + 1
    /\ IF outcome = "ok"
         THEN \* ret == 200: break, build the proxy URL, stamp it, return
              /\ proxy' = Endpoint
              /\ proxy_fetch_time' = now
              /\ pc' = IF caller = "run" THEN "loop" ELSE "create_directories"
              /\ caller' = "none"
              /\ UNCHANGED <<attempt, now>>
         ELSE \* an exception or ret != 200: sleep, next pass
              /\ attempt' = attempt + 1
              /\ now' = now + RETRY_DELAY
              /\ UNCHANGED <<proxy, proxy_fetch_time, caller, pc>>
    /\ UNCHANGED <<exit_code, cause>>
    /\ UNCHANGED <<disk, avid_list, completed_avids, remaining_avids, index,
                   files, file_idx, started, invoked, covered, dl>>

\* the exhaustion raised as an ordinary exception and swallowed by the
\* per-item handler: the loop goes on
GetIpExhaustedSwallowed ==
    /\ pc = "get_ip"
    /\ attempt = max_retries
    /\ cause' = "max_retries"
    /\ pc' = "loop"
    /\ index' = IF caller = "run" THEN index ELSE index + 1
    /\ error_log' = IF caller = "run" THEN error_log
                    ELSE error_log \cup {AvidLine(avid)}
    /\ UNCHANGED <<csv_exists, csv, progress_log, exit_code, avid_list,
                   completed_avids, remaining_avids, proxy, proxy_fetch_time,
                   attempt, caller, files, file_idx, now, calls, started,
                   invoked, covered, dl>>

\* get_ip(): the for loop's else branch
GetIpExhausted ==
    /\ pc = "get_ip"
    /\ attempt = max_retries
    /\ Exit(1, "max_retries")
    /\ UNCHANGED <<disk, memory, now, calls, started, invoked, covered,
                   dl>>

\* run(): the head of the for loop, with check_ip_validity
LoopNext ==
    /\ pc = "loop"
    /\ IF index > Len(remaining_avids)
         THEN /\ Exit(0, "completed")
              /\ UNCHANGED <<attempt, caller, calls>>
         ELSE /\ IF Expired
                   THEN /\ pc' = "get_ip"
                        /\ caller' = "check_ip_validity"
                        /\ attempt' = 0
                        /\ calls' = 0
                   ELSE /\ pc' = "create_directories"
                        /\ UNCHANGED <<attempt, caller, calls>>
              /\ UNCHANGED <<exit_code, cause>>
    /\ UNCHANGED <<disk, avid_list, completed_avids, remaining_avids, index,
                   proxy, proxy_fetch_time, files, file_idx, now,
                   started, invoked, covered, dl>>

\* run(): create_directories(avid), which may raise OSError
CreateDirectories(ok) ==
    /\ pc = "create_directories"
    /\ started' = started \cup {avid}
    /\ IF ok
         THEN /\ pc' = "download"
              /\ UNCHANGED <<error_log, index, exit_code, cause>>
         ELSE ItemException
    /\ UNCHANGED <<csv_exists, csv, progress_log, avid_list,
                   completed_avids, remaining_avids, proxy, proxy_fetch_time,
                   attempt, caller, files, file_idx, now, calls,
                   invoked, covered, dl>>

\* a generate_and_run_commands that logs a failure and raises it again
RunDownloadRaises(outcome, found) ==
    /\ pc = "download"
    /\ invoked' = Append(invoked, avid)
    /\ dl' = [dl EXCEPT ![avid] = outcome]
    /\ now' = now + DownloadTime(outcome)
    /\ IF outcome = "ok"
         THEN /\ files' = found
              /\ file_idx' = 1
              /\ pc' = "covers"
              /\ UNCHANGED <<error_log, index>>
         ELSE /\ error_log' = error_log \cup {AvidLine(avid)}
              /\ index' = index + 1
              /\ pc' = "loop"
              /\ UNCHANGED <<files, file_idx>>
    /\ UNCHANGED <<csv_exists, csv, progress_log, exit_code, avid_list,
                   completed_avids, remaining_avids, proxy,
                   proxy_fetch_time, attempt, caller, calls, started,
                   covered, cause>>

\* a run() that calls log_progress before the cover walk
RunDownloadLogsEarly(outcome, found) ==
    /\ pc = "download"
    /\ invoked' = Append(invoked, avid)
    /\ dl' = [dl EXCEPT ![avid] = outcome]
    /\ now' = now + DownloadTime(outcome)
    /\ error_log' = IF outcome = "ok" THEN error_log
                    ELSE error_log \cup {AvidLine(avid)}
    /\ progress_log' = Append(progress_log, IdText[avid])
    /\ files' = found
    /\ file_idx' = 1
    /\ pc' = "covers"
    /\ UNCHANGED <<csv_exists, csv, exit_code, avid_list,
                   completed_avids, remaining_avids, index, proxy,
                   proxy_fetch_time, attempt, caller, calls, started,
                   covered, cause>>

\* generate_and_run_commands: the yutto command under its timeout; every
\* failure is logged to the error ledger and swallowed.  Then os.walk.
RunDownload(outcome, found) ==
    /\ pc = "download"
    /\ invoked' = Append(invoked, avid)
    /\ dl' = [dl EXCEPT ![avid] = outcome]
    /\ now' = now + DownloadTime(outcome)
    /\ error_log' = IF outcome = "ok" THEN error_log
                    ELSE error_log \cup {AvidLine(avid)}
    /\ files' = found
    /\ file_idx' = 1
    /\ pc' = "covers"
    /\ UNCHANGED <<csv_exists, csv, progress_log, exit_code, avid_list,
                   completed_avids, remaining_avids, index, proxy,
                   proxy_fetch_time, attempt, caller, calls, started,
                   covered, cause>>

\* extract_cover_image on the next .mp4: only CalledProcessError is caught
\* there; TimeoutExpired goes up to run()'s per-item handler
ExtractCover(outcome) ==
    /\ pc = "covers"
    /\ file_idx <= files
    /\ covered' = covered \cup {<<avid, file_idx>>}
    /\ now' = now + CoverTime(outcome)
    /\ CASE outcome = "ok" ->
              /\ file_idx' = file_idx + 1
              /\ UNCHANGED <<error_log, index, pc, exit_code, cause>>
         [] outcome = "nonzero" ->
              /\ error_log' = error_log \cup {FileLine(avid, file_idx)}
              /\ file_idx' = file_idx + 1
              /\ UNCHANGED <<index, pc, exit_code, cause>>
         [] outcome = "timeout" ->
              /\ ItemException
              /\ UNCHANGED file_idx
    /\ UNCHANGED <<csv_exists, csv, progress_log, avid_list,
                   completed_avids, remaining_avids, proxy, proxy_fetch_time,
                   attempt, caller, files, calls, started, invoked, dl>>

\* run(): log_progress(avid) once the walk is over, then the checkpoint
\* test; at a multiple of 1000 the process waits in input()
LogProgress ==
    /\ pc = "covers"
    /\ file_idx > files
    /\ progress_log' = Append(progress_log, IdText[avid])
    /\ IF index % CHECKPOINT_EVERY = 0
         THEN /\ pc' = "checkpoint"
              /\ UNCHANGED index
         ELSE /\ pc' = "loop"
              /\ index' = index + 1
    /\ UNCHANGED <<csv_exists, csv, error_log, exit_code, avid_list,
                   completed_avids, remaining_avids, proxy, proxy_fetch_time,
                   attempt, caller, files, file_idx, now, history>>

\* run(): input("Press Enter to continue...") returns; the operator's
\* terminal is attached, so input() does not raise EOFError
Acknowledge ==
    /\ pc = "checkpoint"
    /\ pc' = "loop"
    /\ index' = index + 1
    /\ UNCHANGED <<disk, avid_list, completed_avids, remaining_avids, proxy,
                   proxy_fetch_time, attempt, caller, files, file_idx, now,
                   history, exit_code>>

\* the process is killed from outside
Kill ==
    /\ pc \notin {"exited", "killed"}
    /\ pc' = "killed"
    /\ UNCHANGED <<disk, memory, history, exit_code, now>>

\* the batch is launched again on the same input and output directory
NewRun ==
    /\ pc \in {"exited", "killed"}
    /\ pc' = "read_csv"
    /\ exit_code' = -1
    /\ avid_list' = <<>>
    /\ completed_avids' = {}
    /\ remaining_avids' = <<>>
    /\ index' = 1
    /\ proxy' = "None"
    /\ proxy_fetch_time' = 0
    /\ attempt' = 0
    /\ caller' = "none"
    /\ files' = 0
    /\ file_idx' = 1
    /\ now' = 0
    /\ calls' = 0
    /\ started' = {}
    /\ invoked' = <<>>
    /\ covered' = {}
    /\ dl' = NoDownloads
    /\ cause' = "none"
    /\ UNCHANGED disk

\* the steps of one process
RunNext ==
    \/ ReadCsv
    \/ LoadProgress
    \/ \E outcome \in IpOutcomes : GetIpAttempt(outcome)
    \/ GetIpExhausted
    \/ LoopNext
    \/ \E ok \in BOOLEAN : CreateDirectories(ok)
    \/ \E outcome \in DownloadOutcomes, found \in 0..MaxFiles :
          RunDownload(outcome, found)
    \/ \E outcome \in CoverOutcomes : ExtractCover(outcome)
    \/ LogProgress

Next ==
    \/ RunNext
    \/ Kill
    \/ NewRun

\* the batch launched any number of times on a short work list
Spec == Init /\ [][Next]_vars

\* one launch on the longer work list, long enough for a lease to expire
LongSpec == InitLong /\ [][RunNext]_vars

\* the steps of a process for which the proxy service, the downloads and
\* the file system do well, with no .mp4 to extract a cover from
FirstItemsNext ==
    \/ ReadCsv
    \/ LoadProgress
    \/ GetIpAttempt("ok")
    \/ LoopNext
    \/ CreateDirectories(TRUE)
    \/ RunDownload("ok", 0)
    \/ LogProgress
    \/ Acknowledge

\* one launch on the 1001-item work list with everything going well; it
\* passes through the state AtCheckpointItem
FirstItemsSpec == InitCheckpoint /\ [][FirstItemsNext]_vars

\* the steps of the loop of run(), the pause at the checkpoint included
CheckpointNext ==
    \/ \E outcome \in IpOutcomes : GetIpAttempt(outcome)
    \/ GetIpExhausted
    \/ LoopNext
    \/ \E ok \in BOOLEAN : CreateDirectories(ok)
    \/ \E outcome \in DownloadOutcomes, found \in 0..MaxFiles :
          RunDownload(outcome, found)
    \/ \E outcome \in CoverOutcomes : ExtractCover(outcome)
    \/ LogProgress
    \/ Acknowledge

\* the launch on the 1001-item work list from item 1000 on, where anything
\* can happen to the proxy service, the downloads and the cover extractions
CheckpointSpec == AtCheckpointItem /\ [][CheckpointNext]_vars

\* the single thread of a living process always takes its next step: every
\* external call returns or times out.  Kills and relaunches are not owed.
LiveSpec == Init /\ [][Next]_vars /\ WF_vars(RunNext)

(* ------------------------- what the claims read ------------------------ *)
\* avid has a line in progress_log.txt
InProgress(a) == IdText[a] \in Range(progress_log)

\* avid has a line in error_log.txt
InErrors(a) == AvidLine(a) \in error_log

\* the loop is through with avid in this run
Finished(a) ==
    \E i \in 1..Len(remaining_avids) : remaining_avids[i] = a /\ i < index

\* the process is alive
Running == pc \notin {"exited", "killed"}

\* seconds since the current proxy was stamped
Age == now - proxy_fetch_time

\* the run has built its remaining list: it is in, or past, its first
\* proxy acquisition
Loaded == caller = "run" \/ proxy # "None"

\* the loop body of the current item was entered and not left
MidItem == index <= Len(remaining_avids) /\ avid \in started

\* where a first appears in s
FirstAt(s, a) ==
    CHOOSE i \in 1..Len(s) : s[i] = a /\ a \notin Range(SubSeq(s, 1, i - 1))

\* no value occurs twice in s
NoRepeats(s) == \A i, j \in 1..Len(s) : i # j => s[i] # s[j]

\* t is s with lines appended
IsPrefix(s, t) == Len(s) <= Len(t) /\ SubSeq(t, 1, Len(s)) = s

(* ------------------------------- claims -------------------------------- *)
\* C1: an item whose download failed in this run (non-zero exit, timeout
\* or invocation error) has no line in the Progress Ledger.
C1_FailedDownloadNotInProgress ==
    \A a \in IDs : dl[a] \in DownloadFailures => ~InProgress(a)

\* C2, as stated: a run that has read its work list and ledger has, when it
\* ends, run the download command for exactly the avids of the work list
\* that were not in the loaded ledger.
C2_DownloadsExactlyRemaining ==
    (pc = "exited" /\ cause \notin {"csv_not_found", "corrupt_ledger"})
        => Range(invoked) = {a \in Range(csv) : a \notin completed_avids}

\* C2, amended: the download command is run only for avids of the work
\* list that are neither in the loaded ledger nor in the ledger file at
\* that moment, whichever run wrote them; and a run that reaches the end of
\* its loop has entered the loop body for every avid of the work list that
\* was not in the loaded ledger; the download is run for each of them
\* unless creating its directories raised, which the Error Ledger records.
C2_DownloadsOnlyRemaining ==
    /\ \A i \in 1..Len(invoked) :
          invoked[i] \in Range(csv) /\ invoked[i] \notin completed_avids
    /\ pc \in {"download", "covers"} => ~InProgress(avid)
    /\ (pc = "exited" /\ cause = "completed")
          => /\ started = {a \in Range(csv) : a \notin completed_avids}
             /\ Range(invoked) \subseteq started
             /\ \A a \in started \ Range(invoked) :
                   dl[a] = "none" /\ InErrors(a)

\* C2 witness: a finished run that found avids in the ledger and downloaded
\* others.
C2_Witness ==
    /\ pc = "exited" /\ cause = "completed"
    /\ completed_avids # {}
    /\ Len(invoked) > 0

\* C3: while the process lives, every avid of the remaining list is
\* eventually started, unless the process is killed or a proxy acquisition
\* exhausts its retries; no failure of an earlier item ends the loop.
C3_EveryRemainingItemStarted ==
    \A a \in IDs :
       (Running /\ a \in Range(remaining_avids))
          ~> (a \in started \/ pc = "killed" \/ cause = "max_retries")

\* C3 witness: the second item's download is about to run although the
\* first item ended in the per-item handler.
C3_Witness ==
    /\ pc = "download" /\ index = 2
    /\ InErrors(remaining_avids[1]) /\ ~InProgress(remaining_avids[1])

\* the three cases of C4 for an avid, once the run has ended
C4_Done(a) == InProgress(a)
C4_Skipped(a) == ~InProgress(a) /\ a \notin started /\ exit_code # 0
C4_Failed(a) == ~InProgress(a) /\ InErrors(a)

\* C4, as stated: after a run has ended, every avid of the input is in
\* exactly one of the cases: in the Progress Ledger; not attempted because
\* of a fatal abort; absent from the Progress Ledger and in the Error Ledger.
C4_ExactlyOneCase ==
    pc = "exited" =>
       \A a \in Range(csv) :
          /\ C4_Done(a) \/ C4_Skipped(a) \/ C4_Failed(a)
          /\ ~(C4_Done(a) /\ C4_Skipped(a))
          /\ ~(C4_Done(a) /\ C4_Failed(a))
          /\ ~(C4_Skipped(a) /\ C4_Failed(a))

\* C4, amended: after a run has ended, every avid of the input is in at
\* least one of the three cases, and no avid whose loop body was entered is
\* in neither ledger.
C4_SomeCase ==
    pc = "exited" =>
       \A a \in Range(csv) :
          /\ C4_Done(a) \/ C4_Skipped(a) \/ C4_Failed(a)
          /\ a \in started => (InProgress(a) \/ InErrors(a))

\* C4 witness: a run ended by the loop's completion with one avid in the
\* Progress Ledger and another only in the Error Ledger.
C4_Witness ==
    /\ pc = "exited" /\ exit_code = 0
    /\ \E a, b \in started : C4_Done(a) /\ C4_Failed(b)

\* C5: whenever the download command is about to be run, the proxy is
\* younger than the 300 s lease.
C5_LeaseYoungAtDownload == pc = "download" => Age < 300

\* C6: an avid whose download succeeded has, once the loop is through with
\* it, a line in the Progress Ledger, whatever its cover extractions did.
C6_DownloadedIsCompleted ==
    \A a \in IDs : (dl[a] = "ok" /\ Finished(a)) => InProgress(a)

\* C7: an acquisition never calls the service more than 5 times; it calls
\* again only while every call so far has failed; it gives up after exactly
\* 5 failed calls, and then the process has exited with a non-zero code; a
\* call that succeeds is the acquisition's last.
C7_FiveCallsThenExit ==
    /\ calls <= 5
    /\ pc = "get_ip" => calls = attempt
    /\ cause = "max_retries" => (pc = "exited" /\ exit_code # 0 /\ calls = 5)
    /\ (proxy # "None" /\ caller = "none") => calls = attempt + 1

\* C7 witness: the process has exited after 5 failed calls.
C7_Witness == pc = "exited" /\ cause = "max_retries" /\ calls = 5

\* C8: once an acquisition has exhausted its retries the process has exited
\* with code 1 and no step of it is possible any more; and no step taken
\* from such a state (a relaunch, where the specification has one) changes
\* a ledger or adds a download or cover-extraction run.
C8_ExhaustionIsFinal ==
    /\ [](cause = "max_retries"
            => (pc = "exited" /\ exit_code = 1 /\ ~ENABLED RunNext))
    /\ [][cause = "max_retries"
            => /\ progress_log' = progress_log
               /\ error_log' = error_log
               /\ Len(invoked') <= Len(invoked)
               /\ covered' \subseteq covered]_vars

\* C8 witness: the retries ran out at the validity check before the third
\* item, with two completion records already written.
C8_Witness ==
    /\ cause = "max_retries"
    /\ index = 3
    /\ Len(progress_log) = 2

\* C9: the validity check at the head of the loop starts an acquisition
\* exactly when the proxy is unset or older than 300 s, and otherwise
\* leaves the proxy and its time stamp as they were.
C9_CheckAcquiresIffExpired ==
    [][(pc = "loop" /\ index <= Len(remaining_avids))
          => /\ (pc' = "get_ip") <=> (proxy = "None" \/ Age > 300)
             /\ pc' # "get_ip"
                  => (proxy' = proxy /\ proxy_fetch_time' = proxy_fetch_time)
      ]_vars

\* C9 witness: a check 301 s after the stamp has just started an acquisition.
C9_Witness ==
    /\ pc = "get_ip" /\ caller = "check_ip_validity" /\ calls = 0
    /\ Age = 301

\* a check 299 s after the stamp let the item through
C9_NotYetExpired == pc = "create_directories" /\ Age = 299

\* C10: a Progress Ledger line that is no ID never ends the process.
C10_CorruptLineDoesNotExit ==
    LoadRaises(progress_log) => cause # "corrupt_ledger"

\* C11: the loop goes from item k*1000 to item k*1000+1 only out of the
\* pause, by the operator's acknowledgment, whether item k*1000 succeeded
\* or failed; and the run pauses at no other item count.
C11_PauseAfterEveryThousand ==
    /\ [][(index % 1000 = 0 /\ index' = index + 1)
            => (pc = "checkpoint" /\ pc' = "loop")]_vars
    /\ [](pc = "checkpoint" => index % 1000 = 0)

\* C12: when the CSV file is missing the run exits with a non-zero code
\* before anything else happens: the proxy stays unset and the service is
\* never called, no loop body is entered, no download or cover command is
\* run, and neither ledger changes.
C12_MissingCsvStopsFirst ==
    /\ [](~csv_exists
            => /\ pc \in {"read_csv", "exited", "killed"}
               /\ pc = "exited" => (exit_code # 0 /\ cause = "csv_not_found")
               /\ proxy = "None" /\ calls = 0
               /\ started = {} /\ invoked = <<>> /\ covered = {})
    /\ [][~csv_exists
            => (progress_log' = progress_log /\ error_log' = error_log)]_vars

\* C12 witness: the run on a missing CSV file has exited with code 1.
C12_Witness ==
    ~csv_exists /\ pc = "exited" /\ exit_code = 1 /\ cause = "csv_not_found"

\* C13: the ledger is loaded as the file holds it; the remaining list holds
\* the avids of the input that are not in the loaded ledger, each once, in
\* the order of their first appearance in the input; and the loop enters
\* and downloads the items in exactly that order.
C13_RemainingInInputOrder ==
    /\ (pc = "get_ip" /\ caller = "run" /\ calls = 0)
          => completed_avids = {a \in DOMAIN IdText : InProgress(a)}
    /\ Loaded =>
          LET r == remaining_avids
          IN  /\ Range(r) = Range(csv) \ completed_avids
              /\ \A i, j \in 1..Len(r) :
                    i < j => FirstAt(csv, r[i]) < FirstAt(csv, r[j])
              /\ {r[i] : i \in 1..(index - 1)} \subseteq started
              /\ started \subseteq {r[i] : i \in {k \in 1..Len(r) : k <= index}}
              /\ \A i, j \in 1..Len(invoked) :
                    i < j => FirstAt(r, invoked[i]) < FirstAt(r, invoked[j])

\* C13 witness: the input <<102, 101, 102>> with an empty ledger has been
\* downloaded as 102, then 101.
C13_Witness ==
    /\ csv = <<102, 101, 102>>
    /\ completed_avids = {}
    /\ remaining_avids = <<102, 101>>
    /\ invoked = <<102, 101>>

\* C14: a download that failed (non-zero exit, timeout, invocation error)
\* has its avid in the Error Ledger, and the step after the download
\* command is the cover walk of the same item whatever the outcome was:
\* nothing is raised out of the download, the process does not exit.
C14_FailedDownloadIsRecordedAndSwallowed ==
    /\ [](\A a \in IDs : dl[a] \in DownloadFailures => InErrors(a))
    /\ [][(pc = "download" /\ pc' # "killed")
            => /\ pc' = "covers" /\ file_idx' = 1
               /\ index' = index /\ exit_code' = exit_code]_vars

\* C14 witness: the cover walk of an item has begun after its download
\* timed out.
C14_Witness ==
    /\ pc = "covers" /\ files = 1 /\ file_idx = 1
    /\ dl[avid] = "timeout" /\ InErrors(avid)

\* C15: a cover extraction, failed or not, is followed by the next file of
\* the same item (or by the item's completion): the walk is not left; and
\* a failed extraction leaves the file's basename in the Error Ledger.
C15_CoverFailureKeepsWalking ==
    [][(pc = "covers" /\ covered' # covered)
          => /\ pc' = "covers" /\ file_idx' = file_idx + 1
             /\ index' = index
             /\ error_log' = error_log
                  \/ FileLine(avid, file_idx) \in error_log']_vars

\* C16: within one run the download command is run at most once for an
\* avid, and the loop never goes back to an earlier item.
C16_NoRetryWithinRun ==
    /\ [](NoRepeats(invoked))
    /\ [][pc' # "read_csv" => index' >= index]_vars

\* C16 witness: the run has ended after a failed download of its first
\* item and a download of its second, each run once.
C16_Witness ==
    /\ pc = "exited" /\ cause = "completed"
    /\ Len(invoked) = 2
    /\ dl[invoked[1]] \in DownloadFailures

\* C17: over any sequence of runs, kills and aborts the Progress Ledger
\* never holds a line twice, and every step leaves the lines it held in
\* place: it only grows at its end.
C17_ProgressLedgerOnlyGrows ==
    /\ [](NoRepeats(progress_log))
    /\ [][IsPrefix(progress_log, progress_log')]_vars

\* C17 witness: a later run, which found one record in the ledger, has
\* appended a second.
C17_Witness ==
    /\ Cardinality(completed_avids) = 1
    /\ Len(progress_log) = 2
    /\ Len(invoked) = 1

\* C18: the Progress Ledger gets an item's line only when its download and
\* every cover extraction of it have returned, and the step leads to the
\* head of the loop (or its pause); so while an item is being processed,
\* and when the process was killed then, the item is not in the ledger, and
\* the list the next run builds from the files holds it.
C18_RecordedOnlyAfterTheWork ==
    /\ [][progress_log' # progress_log
            => /\ pc = "covers"
               /\ progress_log' = Append(progress_log, IdText[avid])
               /\ avid \in Range(invoked)
               /\ \A k \in 1..files : <<avid, k>> \in covered
               /\ pc' \in {"loop", "checkpoint"}]_vars
    /\ [](pc \in {"create_directories", "download", "covers"}
            => ~InProgress(avid))
    /\ []((pc = "killed" /\ MidItem)
            => /\ ~InProgress(avid)
               /\ avid \in Range(Remaining(Unique(csv),
                                            load_progress(progress_log))))

\* C18 witness: the process was killed after an item's download and cover
\* extraction, just before its record.
C18_Witness ==
    /\ pc = "killed" /\ MidItem
    /\ dl[avid] = "ok"
    /\ files = 1 /\ <<avid, 1>> \in covered /\ file_idx = 2

====
